---------------------------- MODULE Spec2Model ----------------------------
(***************************************************************************)
(* Model of src/apps.py: the compound-interest tutor.                      *)
(*                                                                         *)
(* The program state is the loaded ontology: which classes/individuals it  *)
(* provides, the student_1 individual (score, streak, difficulty), the     *)
(* values stored on formula_ci, and the most recent CalculationRecord.     *)
(* The three routes /calculate, /quiz and /quiz_check are the actions.     *)
(* The last request and the last response are kept so that properties of   *)
(* a handler's output can be stated.                                       *)
(*                                                                         *)
(* Python floats are modelled as exact rationals <<num, den>> (den > 0,    *)
(* lowest terms); time is restricted to whole numbers of years so that     *)
(* the power (n*t) is an integer power.                                    *)
(***************************************************************************)
EXTENDS Integers, Sequences, FiniteSets, TLC

VARIABLES onto, student, formula, record, req, resp

vars == <<onto, student, formula, record, req, resp>>

----------------------------------------------------------------------------
(* Exact rational arithmetic standing for Python float arithmetic.         *)

Abs(i) == IF i < 0 THEN -i ELSE i

RECURSIVE Gcd(_, _)
Gcd(a, b) == IF b = 0 THEN a ELSE Gcd(b, a % b)

Norm(num, den) ==
    LET s == IF den < 0 THEN -1 ELSE 1
        g == Gcd(Abs(num), Abs(den))
    IN  <<(s * num) \div g, (s * den) \div g>>

Q(i) == <<i, 1>>

Frac(num, den) == Norm(num, den)

RAdd(a, b) ==
    LET g == Gcd(a[2], b[2])
    IN  Norm(a[1] * (b[2] \div g) + b[1] * (a[2] \div g), (a[2] \div g) * b[2])

RNeg(a) == <<-a[1], a[2]>>

RSub(a, b) == RAdd(a, RNeg(b))

RMul(a, b) ==
    LET x == Norm(a[1], b[2])
        y == Norm(b[1], a[2])
    IN  <<x[1] * y[1], x[2] * y[2]>>

\* a / b for b # 0 (the callers test for zero first, where Python raises)
RDiv(a, b) == RMul(a, Norm(b[2], b[1]))

RAbs(a) == <<Abs(a[1]), a[2]>>

RLess(a, b) == RSub(a, b)[1] < 0

\* base ** k for a whole k >= 0 (Python: x ** 0 = 1.0, also for x = 0.0)
RECURSIVE RPow(_, _)
RPow(base, k) == IF k = 0 THEN Q(1) ELSE RMul(base, RPow(base, k - 1))

\* num/den (den > 0) to the nearest whole number, ties to the even one;
\* f is the floor of num/den
HalfEven(num, den, f) ==
    IF 2 * (num - f * den) < den THEN f
    ELSE IF 2 * (num - f * den) > den THEN f + 1
    ELSE IF f % 2 = 0 THEN f ELSE f + 1

RoundWhole(h) == HalfEven(h[1], h[2], h[1] \div h[2])

\* round(x, 2): to the nearest hundredth, ties to the even hundredth
Round2(x) == Norm(RoundWhole(RMul(x, Q(100))), 100)


----------------------------------------------------------------------------
(* Values                                                                  *)

\* Python's None (an absent individual, an unset value)
None == [none |-> TRUE]

MisNone == "None"

MisconceptionNames ==
    <<"mis_simple_interest", "mis_ignore_compounding",
      "mis_one_year_only", "mis_wrong_rate_conversion">>

----------------------------------------------------------------------------
(* Helper functions                                                        *)

\* get_int_prop: the first value of the property, or the default when the
\* individual is None.  The properties of student_1 hold whole numbers, for
\* which int(float(v)) = v.
get_int_prop(indiv, prop_name, default) ==
    IF indiv = None THEN default ELSE indiv[prop_name]

\* get_or_create_student applied to ontology o holding student s: the
\* student individual afterwards (None when there is neither a student_1
\* nor a Student class to create it from).
get_or_create_student(o, s) ==
    IF s = None /\ ~o.Student THEN None
    ELSE IF s = None
         THEN [hasScore |-> 0, hasCorrectStreak |-> 0, hasDifficultyLevel |-> 1]
         ELSE s

\* compound_interest raises ZeroDivisionError at r / n
compound_interest_raises(n) == n = 0

\* the unrounded A = P * (1 + r/n) ** (n*t)
Amount(P, rate_percent, t, n) ==
    LET r == RDiv(Q(rate_percent), Q(100))
    IN  RMul(Q(P), RPow(RAdd(Q(1), RDiv(r, Q(n))), n * t))

\* compound_interest: the rounded amount (the step texts are not modelled)
compound_interest(P, rate_percent, t, n) == Round2(Amount(P, rate_percent, t, n))

----------------------------------------------------------------------------
(* Misconception detection                                                 *)

MatchTolerance == Q(1)

si_amount(P, rate, t) ==
    RMul(Q(P), RAdd(Q(1), RMul(RDiv(Q(rate), Q(100)), Q(t))))

annual_amount(P, rate, t) ==
    RMul(Q(P), RPow(RAdd(Q(1), RDiv(Q(rate), Q(100))), t))

one_year_amount(P, rate, n) ==
    RMul(Q(P), RPow(RAdd(Q(1), RDiv(RDiv(Q(rate), Q(100)), Q(n))), n))

wrong_rate_amount(P, rate, t, n) ==
    RMul(Q(P), RPow(RAdd(Q(1), RDiv(Q(rate), Q(n))), n * t))

Near(user_answer, candidate) ==
    RLess(RAbs(RSub(user_answer, candidate)), MatchTolerance)

\* variant: the ignore-compounding candidate is tried before simple interest
detect_misconception_annual_first(P, rate, t, n, user_answer, correct_amount) ==
    IF Near(user_answer, annual_amount(P, rate, t)) /\ n # 1
    THEN "mis_ignore_compounding"
    ELSE IF Near(user_answer, si_amount(P, rate, t))
    THEN "mis_simple_interest"
    ELSE IF Near(user_answer, one_year_amount(P, rate, n)) /\ t > 1
    THEN "mis_one_year_only"
    ELSE IF Near(user_answer, wrong_rate_amount(P, rate, t, n))
    THEN "mis_wrong_rate_conversion"
    ELSE MisNone

\* variant: the guards n # 1 and t > 1 are left out
detect_misconception_unguarded(P, rate, t, n, user_answer, correct_amount) ==
    IF Near(user_answer, si_amount(P, rate, t))
    THEN "mis_simple_interest"
    ELSE IF Near(user_answer, annual_amount(P, rate, t))
    THEN "mis_ignore_compounding"
    ELSE IF Near(user_answer, one_year_amount(P, rate, n))
    THEN "mis_one_year_only"
    ELSE IF Near(user_answer, wrong_rate_amount(P, rate, t, n))
    THEN "mis_wrong_rate_conversion"
    ELSE MisNone

detect_misconception(P, rate, t, n, user_answer, correct_amount) ==
    IF Near(user_answer, si_amount(P, rate, t))
    THEN "mis_simple_interest"
    ELSE IF Near(user_answer, annual_amount(P, rate, t)) /\ n # 1
    THEN "mis_ignore_compounding"
    ELSE IF Near(user_answer, one_year_amount(P, rate, n)) /\ t > 1
    THEN "mis_one_year_only"
    ELSE IF Near(user_answer, wrong_rate_amount(P, rate, t, n))
    THEN "mis_wrong_rate_conversion"
    ELSE MisNone

----------------------------------------------------------------------------
(* Learner model                                                           *)

StreakThreshold == 3

MaxLevel == 3

MinLevel == 1

\* the value update_student_profile returns and writes back
Profile(score, streak, diff) ==
    [score |-> score, streak |-> streak, diff |-> diff,
     student |-> [hasScore |-> score, hasCorrectStreak |-> streak,
                  hasDifficultyLevel |-> diff]]

\* variant: the level is raised without the test diff < 3
update_student_profile_unclamped(s, difficulty, is_correct) ==
    IF s = None
    THEN [score |-> 0, streak |-> 0, diff |-> difficulty, student |-> None]
    ELSE IF is_correct /\ s.hasCorrectStreak + 1 >= 3
    THEN Profile(s.hasScore + 1, 0, s.hasDifficultyLevel + 1)
    ELSE IF is_correct
    THEN Profile(s.hasScore + 1, s.hasCorrectStreak + 1, s.hasDifficultyLevel)
    ELSE Profile(s.hasScore, 0,
                 IF s.hasDifficultyLevel > 1 THEN s.hasDifficultyLevel - 1
                 ELSE s.hasDifficultyLevel)

\* variant: the level is raised after two right answers in a row
update_student_profile_two(s, difficulty, is_correct) ==
    IF s = None
    THEN [score |-> 0, streak |-> 0, diff |-> difficulty, student |-> None]
    ELSE IF is_correct /\ s.hasCorrectStreak + 1 >= 2 /\ s.hasDifficultyLevel < 3
    THEN Profile(s.hasScore + 1, 0, s.hasDifficultyLevel + 1)
    ELSE IF is_correct
    THEN Profile(s.hasScore + 1, s.hasCorrectStreak + 1, s.hasDifficultyLevel)
    ELSE Profile(s.hasScore, 0,
                 IF s.hasDifficultyLevel > 1 THEN s.hasDifficultyLevel - 1
                 ELSE s.hasDifficultyLevel)

\* variant: a wrong answer never lowers the level
update_student_profile_no_demotion(s, difficulty, is_correct) ==
    IF s = None
    THEN [score |-> 0, streak |-> 0, diff |-> difficulty, student |-> None]
    ELSE IF is_correct /\ s.hasCorrectStreak + 1 >= 3 /\ s.hasDifficultyLevel < 3
    THEN Profile(s.hasScore + 1, 0, s.hasDifficultyLevel + 1)
    ELSE IF is_correct
    THEN Profile(s.hasScore + 1, s.hasCorrectStreak + 1, s.hasDifficultyLevel)
    ELSE Profile(s.hasScore, 0, s.hasDifficultyLevel)

\* variant: the level is taken from the difficulty argument, not from the
\* student
update_student_profile_client_level(s, difficulty, is_correct) ==
    IF s = None
    THEN [score |-> 0, streak |-> 0, diff |-> difficulty, student |-> None]
    ELSE IF is_correct /\ s.hasCorrectStreak + 1 >= 3 /\ difficulty < 3
    THEN Profile(s.hasScore + 1, 0, difficulty + 1)
    ELSE IF is_correct
    THEN Profile(s.hasScore + 1, s.hasCorrectStreak + 1, difficulty)
    ELSE Profile(s.hasScore, 0, IF difficulty > 1 THEN difficulty - 1 ELSE difficulty)

\* variant: the streak is not reset when the level is raised
update_student_profile_keep_streak(s, difficulty, is_correct) ==
    IF s = None
    THEN [score |-> 0, streak |-> 0, diff |-> difficulty, student |-> None]
    ELSE IF is_correct /\ s.hasCorrectStreak + 1 >= 3 /\ s.hasDifficultyLevel < 3
    THEN Profile(s.hasScore + 1, s.hasCorrectStreak + 1, s.hasDifficultyLevel + 1)
    ELSE IF is_correct
    THEN Profile(s.hasScore + 1, s.hasCorrectStreak + 1, s.hasDifficultyLevel)
    ELSE Profile(s.hasScore, 0,
                 IF s.hasDifficultyLevel > 1 THEN s.hasDifficultyLevel - 1
                 ELSE s.hasDifficultyLevel)

\* update_student_profile: the returned (score, streak, diff) and the
\* student individual after the write-back.
update_student_profile(s, difficulty, is_correct) ==
    IF s = None
    THEN [score |-> 0, streak |-> 0, diff |-> difficulty, student |-> None]
    ELSE
      LET score0  == get_int_prop(s, "hasScore", 0)
          streak0 == get_int_prop(s, "hasCorrectStreak", 0)
          diff0   == get_int_prop(s, "hasDifficultyLevel", 1)
          score   == IF is_correct THEN score0 + 1 ELSE score0
          streak1 == IF is_correct THEN streak0 + 1 ELSE 0
          up      == is_correct /\ streak1 >= StreakThreshold /\ diff0 < MaxLevel
          down    == (~is_correct) /\ diff0 > MinLevel
          diff    == IF up THEN diff0 + 1 ELSE IF down THEN diff0 - 1 ELSE diff0
          streak  == IF up THEN 0 ELSE streak1
      IN  Profile(score, streak, diff)

\* log_calculation_record: the CalculationRecord written (the ontology keeps
\* every record; the model keeps the most recent one), or the previous one
\* when nothing is logged.
log_calculation_record(o, old, s, P, rate, t, n, correct_amount, difficulty, is_correct, misconception_name) ==
    IF s = None \/ ~o.CalculationRecord THEN old
    ELSE [recordPrincipal |-> P, recordRate |-> rate, recordTime |-> t,
          recordCompounding |-> n, recordResult |-> correct_amount,
          recordDifficulty |-> difficulty,
          recordCorrect |-> IF is_correct THEN 1 ELSE 0,
          hasMisconception |-> IF misconception_name # MisNone /\ o.Misconceptions
                               THEN misconception_name ELSE MisNone]

----------------------------------------------------------------------------
(* Requests                                                                *)

\* caps on the score counter, one per specification
MaxScore == 9

LoadedMaxScore == 2

GradeMaxScore == 1

\* (principal, rate, time, n) of the bodies posted to /quiz_check; the
\* second set breaks a precondition of the formula
ValidParams ==
    { <<100, 5, 2, 1>>, <<100, 5, 2, 2>>, <<100, 50, 1, 2>>, <<100, 50, 2, 1>>,
      <<100, 0, 2, 2>>, <<10, 5, 2, 2>>, <<10, 50, 2, 2>> }

InvalidParams ==
    { <<-100, 5, 1, 1>>, <<0, 5, 1, 1>>, <<100, -5, 1, 1>>, <<100, 5, 0, 1>>,
      <<100, 5, 1, 0>> }

\* the preconditions of the formula: P > 0, rate >= 0, t > 0, n >= 1
ParamsValid(data) ==
    data.principal > 0 /\ data.rate >= 0 /\ data.time > 0 /\ data.n >= 1

Deltas == { Q(0), Frac(1, 100), Frac(1, 2), Q(1) }

\* the answers a learner submits for a problem: the right amount, each of
\* the four reconstructions, and values a little above each of them
Answers(P, rate, t, n) ==
    IF n = 0 THEN { Q(P) }
    ELSE LET bases == { compound_interest(P, rate, t, n), si_amount(P, rate, t),
                        annual_amount(P, rate, t), one_year_amount(P, rate, n),
                        wrong_rate_amount(P, rate, t, n) }
         IN  { RAdd(b, d) : b \in bases, d \in Deltas }

\* the difficulty field a client sends with /quiz_check
ClientDifficulties == { 1, 3 }

Body(p, a, d) ==
    [principal |-> p[1], rate |-> p[2], time |-> p[3], n |-> p[4],
     user_answer |-> a, difficulty |-> d]

\* the bodies posted to /quiz_check when the grading is explored
QuizCheckData ==
    UNION { { Body(p, a, d) : a \in Answers(p[1], p[2], p[3], p[4]),
                              d \in ClientDifficulties }
            : p \in ValidParams \cup InvalidParams }

\* the bodies posted to /quiz_check when the learner model is explored: a
\* right answer, a simple-interest answer, a right answer to a problem with
\* a negative principal, and a problem with n = 0
LearnerData ==
    { Body(<<100, 5, 2, 1>>, Frac(11025, 100), 1),
      Body(<<100, 5, 2, 1>>, Q(110), 3),
      Body(<<-100, 5, 1, 1>>, Q(-105), 1),
      Body(<<100, 5, 1, 0>>, Q(100), 1) }

CalculateData ==
    { [principal |-> p[1], rate |-> p[2], time |-> p[3], n |-> p[4]]
      : p \in { <<100, 5, 2, 2>>, <<-100, 5, 1, 1>>, <<100, 5, 1, 0>> } }

\* a body that float()/int() reject or that lacks a key
Malformed == [malformed |-> TRUE]

----------------------------------------------------------------------------
(* Routes                                                                  *)

CorrectTolerance == Frac(1, 100)

\* variant: an answer exactly 0.01 away still counts as right
is_correct_of_inclusive(user_answer, correct_amount) ==
    ~RLess(CorrectTolerance, RAbs(RSub(user_answer, correct_amount)))

\* is_correct of quiz_check
is_correct_of(user_answer, correct_amount) ==
    RLess(RAbs(RSub(user_answer, correct_amount)), CorrectTolerance)

\* mis_name of quiz_check
mis_name_of(P, rate, t, n, user_answer, correct_amount) ==
    IF ~is_correct_of(user_answer, correct_amount)
    THEN detect_misconception(P, rate, t, n, user_answer, correct_amount)
    ELSE MisNone

\* the grading of quiz_check for a body whose amount is correct_amount
GradeWith(data, correct_amount) ==
    [raises |-> FALSE,
     correct_amount |-> correct_amount,
     is_correct |-> is_correct_of(data.user_answer, correct_amount),
     mis_name |-> mis_name_of(data.principal, data.rate, data.time, data.n, data.user_answer, correct_amount)]

\* compound_interest and the grading of quiz_check for one request body
Grade(data) ==
    IF compound_interest_raises(data.n)
    THEN [raises |-> TRUE]
    ELSE GradeWith(data, compound_interest(data.principal, data.rate, data.time, data.n))

\* Grade tabulated over the request bodies (the same body always grades the
\* same way)
Grading == [data \in QuizCheckData \cup LearnerData |-> Grade(data)]

\* the JSON body quiz_check returns for well-formed data with n # 0, and
\* the student and record it leaves in the ontology
quiz_check_response(g, upd) ==
    [kind |-> "quiz_check", status |-> 200, correct |-> g.is_correct,
     correct_amount |-> g.correct_amount, misconception |-> g.mis_name,
     difficulty |-> upd.diff, score |-> upd.score, streak |-> upd.streak]

quiz_check_graded(o, rec, data, g, st) ==
    [student |-> update_student_profile(st, data.difficulty, g.is_correct).student,
     record  |-> log_calculation_record(o, rec, st, data.principal, data.rate, data.time, data.n, g.correct_amount, data.difficulty, g.is_correct, g.mis_name),
     body    |-> quiz_check_response(g, update_student_profile(st, data.difficulty, g.is_correct))]

quiz_check_result(o, s, rec, data) ==
    quiz_check_graded(o, rec, data, Grading[data], get_or_create_student(o, s))

\* compound_interest for each body posted to /calculate
Calculated ==
    [data \in CalculateData |->
       IF compound_interest_raises(data.n) THEN [raises |-> TRUE]
       ELSE [raises |-> FALSE,
             A |-> compound_interest(data.principal, data.rate, data.time, data.n)]]

Calculate ==
    \E data \in CalculateData \cup {Malformed} :
      /\ req' = [kind |-> "calculate", data |-> data]
      /\ IF data = Malformed
         THEN /\ resp' = [kind |-> "calculate", status |-> 400]
              /\ formula' = formula
         ELSE IF Calculated[data].raises
         THEN /\ resp' = [kind |-> "calculate", status |-> 500]
              /\ formula' = formula
         ELSE LET A == Calculated[data].A
              IN  /\ resp' = [kind |-> "calculate", status |-> 200, amount |-> A]
                  /\ formula' = IF onto.formula_ci
                                THEN [hasPrincipalValue |-> data.principal,
                                      hasRateValue |-> data.rate,
                                      hasTimeValue |-> data.time,
                                      hasCompoundingValue |-> data.n,
                                      hasAmountValue |-> A]
                                ELSE formula
      /\ UNCHANGED <<onto, student, record>>

\* the parameters quiz draws for a difficulty level
QuizChoices(difficulty) ==
    IF difficulty = 1
    THEN { <<P, rate, t, 1>> : P \in {100, 200, 300}, rate \in {2, 3, 4}, t \in {1, 2} }
    ELSE IF difficulty = 2
    THEN { <<P, rate, t, n>> : P \in {300, 500, 800}, rate \in {3, 4, 5},
                               t \in {1, 2}, n \in {1, 2, 4} }
    ELSE { <<P, rate, t, n>> : P \in {800, 1000, 1500}, rate \in {5, 6, 7},
                               t \in {2, 3}, n \in {4, 6, 12} }

Quiz ==
    LET st == get_or_create_student(onto, student)
        difficulty == get_int_prop(st, "hasDifficultyLevel", 1)
    IN  \E c \in QuizChoices(difficulty) :
          /\ student' = st
          /\ req' = [kind |-> "quiz"]
          /\ resp' = [kind |-> "quiz", status |-> 200, principal |-> c[1],
                      rate |-> c[2], time |-> c[3], n |-> c[4],
                      difficulty |-> difficulty]
          /\ UNCHANGED <<onto, formula, record>>

\* the score counter is capped: a right answer is graded only while the
\* score is below the cap
WithinCap(s, ok, cap) == (ok /\ s # None) => s.hasScore < cap

\* the ontology and the response after quiz_check ran to its end
QuizCheckDone(res) ==
    /\ resp' = res.body
    /\ student' = res.student
    /\ record' = res.record

\* quiz_check, for the bodies of D
QuizCheckOn(D, cap) ==
    \E data \in D \cup {Malformed} :
      /\ req' = [kind |-> "quiz_check", data |-> data]
      /\ IF data = Malformed
         THEN /\ resp' = [kind |-> "quiz_check", status |-> 400]
              /\ UNCHANGED <<student, record>>
         ELSE IF Grading[data].raises
         THEN /\ resp' = [kind |-> "quiz_check", status |-> 500]
              /\ UNCHANGED <<student, record>>
         ELSE /\ WithinCap(get_or_create_student(onto, student), Grading[data].is_correct, cap)
              /\ QuizCheckDone(quiz_check_result(onto, student, record, data))
      /\ UNCHANGED <<onto, formula>>

QuizCheck == QuizCheckOn(LearnerData, MaxScore)

QuizCheckLoaded == QuizCheckOn(LearnerData, LoadedMaxScore)

QuizCheckGrade == QuizCheckOn(QuizCheckData, GradeMaxScore)

----------------------------------------------------------------------------
(* Specifications                                                          *)

\* what the loaded ontology provides
OntoConfigs ==
    { [Student |-> TRUE, CalculationRecord |-> TRUE, Misconceptions |-> TRUE,
       formula_ci |-> TRUE],
      [Student |-> FALSE, CalculationRecord |-> FALSE, Misconceptions |-> FALSE,
       formula_ci |-> FALSE] }

NoRequest == [kind |-> "none"]

\* an ontology without student_1: the learner starts from the defaults
Init ==
    /\ onto \in OntoConfigs
    /\ student = None
    /\ formula = None
    /\ record = None
    /\ req = NoRequest
    /\ resp = NoRequest

Next == Calculate \/ Quiz \/ QuizCheck

Spec == Init /\ [][Next]_vars

\* an ontology file as it is loaded: without student_1, or with student_1
\* and whatever values the file gives its three properties
LoadedStudents ==
    {None} \cup
    [hasScore : 0..1, hasCorrectStreak : 0..3, hasDifficultyLevel : 0..4]

InitLoaded ==
    /\ onto \in OntoConfigs
    /\ student \in LoadedStudents
    /\ formula = None
    /\ record = None
    /\ req = NoRequest
    /\ resp = NoRequest

NextLoaded == Quiz \/ QuizCheckLoaded

SpecLoaded == InitLoaded /\ [][NextLoaded]_vars

\* the grading of quiz_check over the wide set of request bodies
NextGrade == QuizCheckGrade

SpecGrade == Init /\ [][NextGrade]_vars

----------------------------------------------------------------------------
(* Properties                                                              *)

\* the last request was a /quiz_check that ran to its end
Graded == resp.kind = "quiz_check" /\ resp.status = 200

\* the student quiz_check reads in this state
Pre == get_or_create_student(onto, student)

\* this step is a /quiz_check that ran to its end on an existing learner
GradedStep(ok) ==
    /\ resp'.kind = "quiz_check"
    /\ resp'.status = 200
    /\ resp'.correct = ok
    /\ Pre # None
    /\ student' # None

\* C1: from the default learner, after any sequence of graded answers the
\* stored difficulty level, and the level quiz_check returns, is 1, 2 or 3.
C1_LevelInRange ==
    student # None =>
      /\ student.hasDifficultyLevel \in {1, 2, 3}
      /\ Graded => resp.difficulty \in {1, 2, 3}

\* a right answer at level 3 with a streak of 3 or more left the level at 3
C1_Witness ==
    /\ student # None
    /\ Graded
    /\ resp.correct
    /\ resp.difficulty = 3
    /\ resp.streak >= 3

\* C2: at level 1 a right answer with streak 0 or 1 leaves the level at 1
\* and adds one to the streak; the third right answer in a row (streak 2)
\* raises the level to 2 and resets the streak to 0.
C2_Progression ==
    [][ (GradedStep(TRUE) /\ Pre.hasDifficultyLevel = 1
           /\ Pre.hasCorrectStreak \in {0, 1, 2})
        => IF Pre.hasCorrectStreak = 2
           THEN student'.hasDifficultyLevel = 2 /\ student'.hasCorrectStreak = 0
           ELSE /\ student'.hasDifficultyLevel = 1
                /\ student'.hasCorrectStreak = Pre.hasCorrectStreak + 1 ]_vars

\* three right answers and nothing else: level 2, streak 0
C2_Witness ==
    /\ student # None
    /\ Graded
    /\ resp.correct
    /\ student.hasScore = 3
    /\ student.hasDifficultyLevel = 2
    /\ student.hasCorrectStreak = 0

\* C3: grading a wrong answer sets the streak to 0, leaves the score as it
\* was, and lowers the level by one when it was above 1 (and leaves it
\* alone otherwise).
C3_Incorrect ==
    [][ GradedStep(FALSE)
        => /\ student'.hasCorrectStreak = 0
           /\ student'.hasScore = Pre.hasScore
           /\ student'.hasDifficultyLevel =
                IF Pre.hasDifficultyLevel > 1 THEN Pre.hasDifficultyLevel - 1
                ELSE Pre.hasDifficultyLevel ]_vars

\* a wrong answer took a learner who had answered right before from
\* level 3 to level 2
C3_Witness ==
    /\ student # None
    /\ Graded
    /\ ~resp.correct
    /\ resp.difficulty = 2
    /\ resp.streak = 0
    /\ resp.score = 2

\* the bodies quiz_check grades to its end
GradedBodies == { data \in QuizCheckData : ~Grading[data].raises }

\* (right or wrong, level returned) over all bodies, from this state
Outcomes ==
    { <<Grading[data].is_correct,
        quiz_check_result(onto, student, record, data).body.difficulty>>
      : data \in GradedBodies }

LevelDependsOnCorrectnessOnly ==
    \A p, q \in Outcomes : p[1] = q[1] => p[2] = q[2]

Matches(i, data) ==
    CASE i = 1 -> Near(data.user_answer, si_amount(data.principal, data.rate, data.time))
      [] i = 2 -> /\ Near(data.user_answer, annual_amount(data.principal, data.rate, data.time))
                  /\ data.n # 1
      [] i = 3 -> /\ Near(data.user_answer, one_year_amount(data.principal, data.rate, data.n))
                  /\ data.time > 1
      [] i = 4 -> Near(data.user_answer, wrong_rate_amount(data.principal, data.rate, data.time, data.n))

Matching(data) == { i \in 1..4 : Matches(i, data) }

FirstMatch(data) ==
    IF Matching(data) = {} THEN MisNone
    ELSE MisconceptionNames[CHOOSE i \in Matching(data) :
                              \A j \in Matching(data) : i <= j]

\* C5: the misconception reported for a wrong answer is the earliest of
\* SimpleInterest, IgnoreCompoundingFrequency, OneYearOnly,
\* WrongRateConversion whose reconstruction is within 1.0 of the answer and
\* whose guard holds, and None when there is none.
C5_FirstMatchWins ==
    (Graded /\ ~resp.correct) => resp.misconception = FirstMatch(req.data)

\* two candidates matched and the earlier one was reported
C5_Witness ==
    /\ Graded
    /\ ~resp.correct
    /\ Cardinality(Matching(req.data)) >= 2
    /\ 2 \in Matching(req.data)
    /\ resp.misconception = "mis_simple_interest"

\* C6: IgnoreCompoundingFrequency is never reported when n = 1, and
\* OneYearOnly is never reported when t = 1.
C6_Guards ==
    Graded =>
      /\ resp.misconception = "mis_ignore_compounding" => req.data.n # 1
      /\ resp.misconception = "mis_one_year_only" => req.data.time # 1

\* a wrong answer within 1.0 of the annual reconstruction, with n = 1
C6_Witness ==
    /\ Graded
    /\ ~resp.correct
    /\ req.data.n = 1
    /\ Near(req.data.user_answer, annual_amount(req.data.principal, req.data.rate, req.data.time))
    /\ resp.misconception = MisNone

\* |num/den| < 1/100 for den > 0: 100 * |num| < den
UnderHundredth(num, den) == Abs(num) < (den + 99) \div 100

\* |a - b| < 0.01
WithinCent(a, b) == UnderHundredth(RSub(a, b)[1], RSub(a, b)[2])

\* C7: an attempt is marked correct exactly when the answer is less than
\* 0.01 from the correct amount, and an attempt marked correct has no
\* misconception.
C7_CorrectIffWithinCent ==
    Graded =>
      /\ resp.correct <=> WithinCent(req.data.user_answer, resp.correct_amount)
      /\ resp.correct => resp.misconception = MisNone

\* a right answer that a reconstruction matches too
C7_Witness ==
    /\ Graded
    /\ resp.correct
    /\ Matching(req.data) # {}
    /\ resp.misconception = MisNone

\* C8: parameters that break P > 0, rate >= 0, t > 0, n >= 1 get an error
\* response from /calculate and /quiz_check.
C8_InvalidParametersRejected ==
    (req.kind \in {"calculate", "quiz_check"} /\ req.data # Malformed
       /\ ~ParamsValid(req.data))
    => resp.status # 200

\* C9: /quiz returns a problem only for a level that is 1, 2 or 3.
C9_InvalidDifficultyRejected ==
    (resp.kind = "quiz" /\ resp.status = 200) => resp.difficulty \in {1, 2, 3}

\* C10: from the default learner, the streak is at most 2 whenever the
\* level is below 3.
C10_StreakBelowThreshold ==
    (student # None /\ student.hasDifficultyLevel < 3)
    => student.hasCorrectStreak <= 2

\* level 3 with a streak that has reached 3
C10_Witness ==
    /\ student # None
    /\ student.hasDifficultyLevel = 3
    /\ student.hasCorrectStreak >= 3

=============================================================================
